---- MODULE Spec2Model ----
(***************************************************************************)
(* nanoclaw-sidecar: the HTTP to IPC bridge of src/main.py.                *)
(*                                                                         *)
(* State: the configuration loaded at import time (_GROUPS,                *)
(* _DEFAULT_GROUP), the messages directory <base>/ipc/main/messages and    *)
(* its files, the request being served by the event loop and the last      *)
(* response.  Strings that reach the disk (identifiers, message text) are  *)
(* sequences of characters, so that json.dumps / json.loads are a real     *)
(* conversion; a file's content is the sequence of characters written so   *)
(* far.                                                                    *)
(***************************************************************************)
EXTENDS Integers, Sequences, FiniteSets, TLC

VARIABLES groups, defaultGroup, dirExists, files, pc, wr, req, resp, sent,
          seen

vars == <<groups, defaultGroup, dirExists, files, pc, wr, req, resp, sent,
          seen>>

\* ------------------------------------------------------------------ bounds
MaxTick == 2         \* largest clock reading, in clock ticks
MaxSends == 2        \* POST /send requests that wrote a file in one run

\* --------------------------------------------------------------- constants
MsPerSec == 1000     \* int(time.time() * 1000)
TicksPerSec == 2000  \* the clock is finer than a millisecond

Quote == "\""
Backslash == "\\"

\* An optional value: <<>> is None / absent, <<v>> is v.
None == <<>>
Some(v) == <<v>>

Range(f) == {f[x] : x \in DOMAIN f}

\* ------------------------------------------------------------ configuration
JidDev == <<"1">>
JidAlerts == <<"9">>
JidQuoted == <<Quote>>

\* The content of the GROUPS_CONFIG file: absent, or a JSON object of
\* string-to-string pairs (any string may be a key, the empty one included).
NoFile == [exists |-> FALSE, object |-> <<>>]
ConfigFile(obj) == [exists |-> TRUE, object |-> obj]

ConfigFiles ==
    { NoFile,
      ConfigFile([g \in {"dev", "alerts"} |->
                     IF g = "dev" THEN JidDev ELSE JidAlerts]),
      ConfigFile([g \in {"", "dev"} |->
                     IF g = "dev" THEN JidDev ELSE JidQuoted]) }

DefaultGroups == {"", "dev"}

\* _load_groups: an empty dict if the file does not exist.
LoadGroups(file) == IF ~file.exists THEN <<>> ELSE file.object

\* ------------------------------------------------------------------ requests
GroupNames == {"", "dev", "alerts"}
\* Message texts: empty, plain, and the characters json.dumps escapes.
Messages == {<<>>, <<"a">>, <<Quote>>, <<Backslash>>, <<Backslash, Quote>>}

\* A POST /send body: each field is optional on the wire.
SendBodies == [message : {None} \cup {Some(m) : m \in Messages},
               group   : {None} \cup {Some(g) : g \in GroupNames}]

NoBody == [message |-> None, group |-> None]
NoReq == [op |-> "none", body |-> NoBody]
NoResp == [op |-> "none", status |-> 0, body |-> <<>>]
NoWrite == [name |-> <<>>, data |-> <<>>, ms |-> 0]
NoRead == [read |-> FALSE, text |-> <<>>]

\* ---------------------------------------------------------------- json.dumps
EscapeChar(c) == IF c \in {Quote, Backslash} THEN <<Backslash, c>> ELSE <<c>>

RECURSIVE Escape(_)
Escape(s) == IF s = <<>> THEN <<>> ELSE EscapeChar(Head(s)) \o Escape(Tail(s))

JsonStr(s) == <<Quote>> \o Escape(s) \o <<Quote>>

\* json.dumps({"type": ..., "chatJid": ..., "text": ...}), keys in insertion
\* order; the structural pieces are single tokens.
Dumps(p) ==
    <<"{\"type\": ">> \o JsonStr(<<p.type>>)
        \o <<", \"chatJid\": ">> \o JsonStr(p.chatJid)
        \o <<", \"text\": ">> \o JsonStr(p.text)
        \o <<"}">>

\* ---------------------------------------------------------------- json.loads
ScanFail == [ok |-> FALSE, val |-> <<>>, next |-> 0]

\* Scan a string literal's characters from position i (after the opening
\* quote) up to the closing quote.
RECURSIVE ScanStr(_, _, _)
ScanStr(c, i, acc) ==
    IF i > Len(c) THEN ScanFail
    ELSE IF c[i] = Quote THEN [ok |-> TRUE, val |-> acc, next |-> i + 1]
    ELSE IF c[i] = Backslash
         THEN IF i + 1 > Len(c) \/ c[i + 1] \notin {Quote, Backslash}
              THEN ScanFail
              ELSE ScanStr(c, i + 2, Append(acc, c[i + 1]))
    ELSE ScanStr(c, i + 1, Append(acc, c[i]))

\* A member "<key> <string>" starting at position i.
Member(c, i, key) ==
    IF i + 1 > Len(c) \/ c[i] # key \/ c[i + 1] # Quote
    THEN ScanFail
    ELSE ScanStr(c, i + 2, <<>>)

\* Parse a file's text: None if it is not a complete JSON document, else the
\* object it denotes.
Loads(c) ==
    LET t == Member(c, 1, "{\"type\": ")
        j == IF t.ok THEN Member(c, t.next, ", \"chatJid\": ") ELSE ScanFail
        x == IF j.ok THEN Member(c, j.next, ", \"text\": ") ELSE ScanFail
    IN  IF x.ok /\ x.next = Len(c) /\ c[x.next] = "}" /\ Len(t.val) = 1
        THEN Some([type |-> t.val[1], chatJid |-> j.val, text |-> x.val])
        ELSE None

\* ------------------------------------------------------------------- handler
\* A model without required fields.
ValidateNothing(body) == TRUE

\* pydantic validation of SendRequest: message is required.
Validate(body) == body.message # None

\* group_name = req.group or _DEFAULT_GROUP
EffectiveGroup(body, dflt) ==
    IF body.group = None \/ body.group = Some("") THEN dflt ELSE body.group[1]

\* A lookup that falls back to the name itself.
GetOrEcho(g, name) == IF name \in DOMAIN g THEN Some(g[name]) ELSE Some(<<name>>)

\* _GROUPS.get(group_name)
Get(g, name) == IF name \in DOMAIN g THEN Some(g[name]) ELSE None

\* int(time.time() * 1000) for a clock reading of t ticks
Millis(t) == (t * MsPerSec) \div TicksPerSec

\* A name that ignores the timestamp.
FileNameFixed(ms) == <<"webhook-", 0, ".json">>

\* f"webhook-{...}.json"
FileName(ms) == <<"webhook-", ms, ".json">>

IpcDir == <<"ipc", "main", "messages">>

Payload(jid, message) == [type |-> "message", chatJid |-> jid, text |-> message]

NotFoundDetail(name) == <<"Group '", name, "' not found in groups config">>

\* req.message
Text(body) == IF body.message = None THEN <<>> ELSE body.message[1]

\* The event loop takes a request when no handler is running (the handlers
\* are coroutines that never await).
Accept(r) ==
    /\ pc = "idle"
    /\ req' = r

Reply(op, status, body) == resp' = [op |-> op, status |-> status, body |-> body]

\* A liveness check that truncates the files of the directory.
HealthTouchesDir ==
    /\ Accept([op |-> "health", body |-> NoBody])
    /\ Reply("health", 200, [ok |-> TRUE])
    /\ files' = [n \in DOMAIN files |-> <<>>]
    /\ UNCHANGED <<groups, defaultGroup, dirExists, pc, wr, sent, seen>>

\* GET /health
Health ==
    /\ Accept([op |-> "health", body |-> NoBody])
    /\ Reply("health", 200, [ok |-> TRUE])
    /\ UNCHANGED <<groups, defaultGroup, dirExists, files, pc, wr, sent, seen>>

\* Path.write_text, first part: open(path, "w") creates or truncates the file.
OpenW(fs, name) ==
    [n \in DOMAIN fs \cup {name} |-> IF n = name THEN <<>> ELSE fs[n]]

\* A handler that takes the directory for granted.
IpcDirAssumed == TRUE

\* ipc_dir.exists()
IpcDirExists == dirExists

\* POST /send up to the point where the file is open for writing; t is the
\* clock reading the handler takes.
Send(body, t) ==
    /\ Len(sent) < MaxSends
    /\ Accept([op |-> "send", body |-> body])
    /\ IF ~Validate(body)
       THEN /\ Reply("send", 422, [detail |-> <<"message", "Field required">>])
            /\ UNCHANGED <<files, pc, wr>>
       ELSE LET group_name == EffectiveGroup(body, defaultGroup)
                jid == Get(groups, group_name)
            IN  IF jid = None
                THEN /\ Reply("send", 404, [detail |-> NotFoundDetail(group_name)])
                     /\ UNCHANGED <<files, pc, wr>>
                ELSE IF ~IpcDirExists
                THEN /\ Reply("send", 503,
                              [detail |-> <<"IPC messages directory does not exist">>])
                     /\ UNCHANGED <<files, pc, wr>>
                ELSE LET ms == Millis(t)
                         filename == FileName(ms)
                     IN  /\ files' = OpenW(files, filename)
                         /\ wr' = [name |-> filename,
                                   data |-> Dumps(Payload(jid[1], Text(body))),
                                   ms |-> ms]
                         /\ pc' = "writing"
                         /\ resp' = NoResp
    /\ UNCHANGED <<groups, defaultGroup, dirExists, sent, seen>>

\* Path.write_text, second part: the data reaches the file in one or more
\* write calls.
WriteChunk ==
    /\ pc = "writing"
    /\ Len(files[wr.name]) < Len(wr.data)
    /\ \E k \in (Len(files[wr.name]) + 1)..Len(wr.data) :
          files' = [files EXCEPT ![wr.name] = SubSeq(wr.data, 1, k)]
    /\ UNCHANGED <<groups, defaultGroup, dirExists, pc, wr, req, resp, sent,
                   seen>>

\* return {"ok": True, "file": str(ipc_file)}
SendReturn ==
    /\ pc = "writing"
    /\ Len(files[wr.name]) = Len(wr.data)
    /\ Reply("send", 200, [ok |-> TRUE, file |-> IpcDir \o wr.name])
    /\ sent' = Append(sent, wr.ms)
    /\ pc' = "idle"
    /\ wr' = NoWrite
    /\ UNCHANGED <<groups, defaultGroup, dirExists, files, req, seen>>

\* The consumer creates its messages directory (tests: the data_dir fixture).
MkDir ==
    /\ ~dirExists
    /\ dirExists' = TRUE
    /\ UNCHANGED <<groups, defaultGroup, files, pc, wr, req, resp, sent, seen>>

\* A concurrent reader of the directory reads one of its files.
ReadFile ==
    /\ \E n \in DOMAIN files : seen' = [read |-> TRUE, text |-> files[n]]
    /\ UNCHANGED <<groups, defaultGroup, dirExists, files, pc, wr, req, resp,
                   sent>>

Init ==
    /\ \E f \in ConfigFiles : groups = LoadGroups(f)
    /\ defaultGroup \in DefaultGroups
    /\ dirExists \in BOOLEAN
    /\ files = <<>>
    /\ pc = "idle"
    /\ wr = NoWrite
    /\ req = NoReq
    /\ resp = NoResp
    /\ sent = <<>>
    /\ seen = NoRead

SendAny == \E body \in SendBodies, t \in 0..MaxTick : Send(body, t)

Next ==
    \/ Health
    \/ SendAny
    \/ WriteChunk
    \/ SendReturn
    \/ MkDir

Spec == Init /\ [][Next]_vars

\* The sidecar together with a concurrent reader of the directory.
NextR == Next \/ ReadFile

SpecR == Init /\ [][NextR]_vars

\* ===================================================================== claims
\* A step in which the event loop takes a request (GET /health or POST /send).
RequestStep == pc = "idle" /\ dirExists' = dirExists /\ seen' = seen

\* A POST /send request carrying a message arrives in this step.
SendStep == RequestStep /\ req'.op = "send" /\ req'.body.message # None

\* The step in which POST /send returns after its write.
ReturnStep == pc = "writing" /\ pc' = "idle"

\* The group the specification says is looked up: the request's group whenever
\* the field is there, the default only when it is absent.
StatedGroup(body) == IF body.group = None THEN defaultGroup ELSE body.group[1]

\* The name of the file of millisecond ms, as the specification spells it.
WebhookName(ms) == <<"webhook-", ms, ".json">>

\* Python's "name in detail" on the pieces of the detail string.
Contains(detail, name) == name = "" \/ \E i \in 1..Len(detail) : detail[i] = name

\* The files of the directory other than name are as they were.
OthersUnchanged(name) ==
    \A n \in DOMAIN files : n # name => n \in DOMAIN files' /\ files'[n] = files[n]

\* C1: with the directory present, POST /send naming a group that is a key of
\* the mapping opens exactly one file and returns 200, and that file parses
\* to exactly {type: "message", chatJid: groups[group], text: message}.
C1_SendKeyedGroupWritesPayload ==
    [][ /\ (SendStep /\ dirExists /\ req'.body.group # None
                /\ req'.body.group[1] \in DOMAIN groups)
           => (/\ pc' = "writing"
               /\ DOMAIN files' = DOMAIN files \cup {wr'.name}
               /\ OthersUnchanged(wr'.name))
        /\ (ReturnStep /\ req.body.group # None
                /\ req.body.group[1] \in DOMAIN groups)
           => (/\ resp'.status = 200
               /\ Loads(files'[wr.name])
                    = Some(Payload(groups[req.body.group[1]], req.body.message[1])))
      ]_vars

\* C2 (as stated): with the directory missing, POST /send with a message
\* yields 503 and writes no file, whatever the group.
C2_MissingDirAlways503 ==
    [][ (SendStep /\ ~dirExists)
        => (resp'.status = 503 /\ files' = files /\ pc' = "idle") ]_vars

\* C2 (amended): with the directory missing, POST /send with a message writes
\* no file; it yields 503 when the group the handler looks up is a key of the
\* mapping, and 404 when it is not (the lookup comes first).
C2_MissingDirNoFile ==
    [][ (SendStep /\ ~dirExists)
        => (/\ files' = files
            /\ pc' = "idle"
            /\ resp'.op = "send"
            /\ resp'.status =
                 IF EffectiveGroup(req'.body, defaultGroup) \in DOMAIN groups
                 THEN 503 ELSE 404) ]_vars

C2_Witness ==
    /\ req.op = "send" /\ req.body.message # None
    /\ ~dirExists
    /\ resp.op = "send" /\ resp.status = 503
    /\ files = <<>>

\* C3: the group looked up is the request's group whenever the field is
\* there (the empty string included) and the default only when it is absent:
\* the request fails with 404 naming that group exactly when that group is
\* no key, and otherwise the payload carries that group's identifier.
C3_GroupFieldWinsWhenPresent ==
    [][ SendStep
        => IF StatedGroup(req'.body) \notin DOMAIN groups
           THEN /\ resp'.status = 404
                /\ resp'.body.detail = NotFoundDetail(StatedGroup(req'.body))
           ELSE /\ resp'.status # 404
                /\ pc' = "writing"
                     => Loads(wr'.data)
                          = Some(Payload(groups[StatedGroup(req'.body)],
                                         req'.body.message[1])) ]_vars

\* C4: a concurrent reader of the directory never reads a file whose content
\* is not a complete serialized payload.
C4_ReaderNeverSeesPartialFile == seen.read => Loads(seen.text) # None

\* C5: when the requested group, or the default when none is given, is no
\* key of the mapping, POST /send yields 404 whose detail contains that name,
\* and the directory is unchanged.
C5_UnknownGroup404 ==
    [][ (SendStep /\ StatedGroup(req'.body) \notin DOMAIN groups)
        => (/\ resp'.status = 404
            /\ Contains(resp'.body.detail, StatedGroup(req'.body))
            /\ files' = files
            /\ pc' = "idle") ]_vars

\* C6: N sequential successful POST /send calls whose millisecond timestamps
\* are pairwise different leave N distinct files, one per call, each named
\* webhook-<that call's millisecond timestamp>.json.
C6_DistinctTimestampsDistinctFiles ==
    (pc = "idle" /\ \A i, j \in 1..Len(sent) : i # j => sent[i] # sent[j])
    => (/\ Cardinality(DOMAIN files) = Len(sent)
        /\ DOMAIN files = {WebhookName(sent[i]) : i \in 1..Len(sent)})

C6_Witness ==
    /\ pc = "idle"
    /\ Len(sent) = MaxSends
    /\ \A i, j \in 1..Len(sent) : i # j => sent[i] # sent[j]

\* C7: POST /send without a message yields 422 and writes no file, whatever
\* the group and whether or not the directory exists; lookup and write are
\* not reached.
C7_MissingMessage422 ==
    [][ (RequestStep /\ req'.op = "send" /\ req'.body.message = None)
        => (/\ resp'.op = "send"
            /\ resp'.status = 422
            /\ files' = files
            /\ pc' = "idle"
            /\ wr' = wr) ]_vars

C7_Witness ==
    /\ req.op = "send" /\ req.body.message = None
    /\ req.body.group = Some("dev") /\ "dev" \in DOMAIN groups
    /\ dirExists
    /\ resp.status = 422

\* C8: GET /health answers 200 {"ok": true} whenever the event loop can take a
\* request, and leaves the directory, its files and the configuration as they
\* were.
C8_HealthOkNoSideEffects ==
    /\ [](pc = "idle" => ENABLED Health)
    /\ [][ (RequestStep /\ req'.op = "health")
           => (/\ resp'.op = "health"
               /\ resp'.status = 200
               /\ DOMAIN resp'.body = {"ok"}
               /\ resp'.body.ok = TRUE
               /\ UNCHANGED <<files, dirExists, groups, defaultGroup, pc, wr>>)
         ]_vars

C8_Witness ==
    /\ req.op = "health"
    /\ resp.op = "health" /\ resp.status = 200
    /\ files # <<>>
    /\ groups # <<>>

\* C9 (as stated): once POST /send has written a file, no later step of the
\* sidecar, with any timestamp, changes that file.
C9_WrittenFileNeverChanges ==
    [][ \A n \in DOMAIN files :
           n # wr.name => (n \in DOMAIN files' /\ files'[n] = files[n]) ]_vars

\* C9 (amended): once POST /send has written a file, it stays in the
\* directory, and the only step of the sidecar that changes it is a later
\* POST /send that passes its checks with the same millisecond timestamp as
\* the file's name (which truncates and rewrites it).
C9_WrittenFileChangesOnlyOnCollision ==
    [][ \A n \in DOMAIN files :
           n # wr.name
           => /\ n \in DOMAIN files'
              /\ files'[n] # files[n]
                   => (/\ SendStep
                       /\ pc' = "writing"
                       /\ n = WebhookName(wr'.ms)) ]_vars

C9_Witness ==
    /\ pc = "idle"
    /\ Len(sent) = 2 /\ sent[1] = sent[2]
    /\ Cardinality(DOMAIN files) = 1
    /\ req.op = "health"

\* C10: every completely written file of the directory is addressed to an
\* identifier that the loaded mapping assigns to some group, and no step
\* changes the mapping.
C10_ChatJidFromConfig ==
    /\ [](\A n \in DOMAIN files :
             Loads(files[n]) # None
             => Loads(files[n])[1].chatJid \in Range(groups))
    /\ [][groups' = groups /\ defaultGroup' = defaultGroup]_vars

C10_Witness ==
    /\ pc = "idle"
    /\ \E n \in DOMAIN files :
          /\ Loads(files[n]) # None
          /\ Loads(files[n])[1].chatJid = JidQuoted
    /\ resp.status = 404

====
